---- MODULE Spec2Model ----
(***************************************************************************)
(* RobotClient (viam/robot/client.py): discovery refresh, accessors and    *)
(* teardown, as tasks of one asyncio event loop.                           *)
(*                                                                         *)
(* Tasks: "main" is the caller's task (construction, manual refresh,       *)
(* accessors, close); "bg" is the task running _refresh_every.  A task     *)
(* runs from one await to the next without any other task running, so a    *)
(* task may take a step only while every other task is suspended.  The     *)
(* refresh task of a second RobotClient of the same loop is followed by    *)
(* its position alone (other_pc); rpcs is a history of the discovery RPCs. *)
(***************************************************************************)
EXTENDS Naturals, Sequences, FiniteSets, TLC

\* ---------------------------------------------------------------- bounds
MaxLen == 2
MaxBuilds == 2

\* ------------------------------------------------------------ data model
RName(t, s, n) == [type |-> t, subtype |-> s, name |-> n]

ArmX == RName("component", "arm", "x")
ArmY == RName("component", "arm", "y")
GripperX == RName("component", "gripper", "x")
RemoteX == RName("component", "remote", "x")
VisionX == RName("service", "vision", "x")

\* The resource names the remote robot may report.
Universe == {ArmX, ArmY, GripperX, RemoteX, VisionX}

\* The service types a caller may ask for (ServiceType.name).
ServiceTypes == {"vision", "arm"}

\* The registries the process may run with: the subtypes that have a factory.
Registries == {{"arm"}, {"arm", "gripper", "remote"}}

\* The refresh intervals a caller may configure (Options.refresh_interval).
Intervals == {0, 1}

SeqsUpTo(S, n) == UNION {[1..k -> S] : k \in 0..n}

\* Every response the discovery RPC may deliver.
Responses == SeqsUpTo(Universe, MaxLen)

Tasks == {"main", "bg"}

\* A proxy object: `id` is the identity of the object (the build that made it).
NoProxy == [subtype |-> "", name |-> "", id |-> 0]

EmptyComponents == [n \in {} |-> NoProxy]

\* ResourceManager(): a fresh manager object with identity `id`.
ResourceManager(id) == [id |-> id, components |-> EmptyComponents]

NoFrame == [manager |-> ResourceManager(0)]

\* `did` records how a manual refresh() went: "unchanged" (the list was the cached
\* one), "swapped" or "kept" (the new manager was installed or not), "raised" (by
\* the RPC), "raised_in_build" (while the new manager was built).
NoCall == [op |-> "none", name |-> RName("", "", ""), service_type |-> "", did |-> ""]

NoRet == [kind |-> "none", err |-> "", proxy |-> NoProxy, list |-> <<>>]

\* History of the discovery RPCs.  `order`: the tasks inside refresh(), by the order
\* in which their RPC was issued; `overtaken`: those of them whose RPC was issued
\* before an RPC that has been answered since; `last`: the answer handled last;
\* `bg_failed`: the latest periodic refresh raised and none was called since.
NoRpcs == [order |-> <<>>, overtaken |-> {}, last |-> <<>>, bg_failed |-> FALSE]

VARIABLES
    pc,                     \* position of each task
    frame,                  \* locals of each task's refresh() call
    must_cancel,            \* tasks with a cancellation requested and not yet delivered
    registry,               \* Registry: subtypes with a registered factory
    path,                   \* construction path taken
    refresh_interval,       \* options.refresh_interval
    constructed,            \* the constructor has returned a client
    gen,                    \* manager objects built so far by refresh()
    _channel,               \* "none", "open", "closed"
    _manager,               \* self._manager
    _lock,                  \* self._lock is held
    _resource_names,        \* self._resource_names (contents of the list object)
    _should_close_channel,  \* self._should_close_channel
    call,                   \* the accessor call of main in progress or just returned
    ret,                    \* what that call gave back
    aliased,                \* ret.list is the very list object self._resource_names
    other_pc,               \* position of another RobotClient's refresh task in the loop
    rpcs                    \* history of the discovery RPCs: issue order, answers

vars == <<pc, frame, must_cancel, registry, path, refresh_interval, constructed, gen,
          _channel, _manager, _lock, _resource_names, _should_close_channel,
          call, ret, aliased, other_pc, rpcs>>

clientVars == <<_manager, _lock, _resource_names, _should_close_channel>>
callVars == <<call, ret, aliased>>
optVars == <<registry, path, refresh_interval>>

\* ------------------------------------------------------------- event loop
\* Positions at which a task is suspended (an await, or not running at all).
\* Positions of a task that has ended or was never started.
DonePcs == {"none", "done", "cancelled_at_sleep", "cancelled_at_rpc"}

SuspendPcs == {"start", "dialing", "failed", "ready", "closing", "closed",
               "sleep", "refresh_rpc"} \cup DonePcs

\* Task t may run: no other task is in the middle of a synchronous section.
CanRun(t) == \A u \in Tasks \ {t} : pc[u] \in SuspendPcs

ClientInit ==
    /\ pc = [t \in Tasks |-> IF t = "main" THEN "start" ELSE "none"]
    /\ frame = [t \in Tasks |-> NoFrame]
    /\ must_cancel = {}
    /\ registry \in Registries
    /\ path = "none"
    /\ refresh_interval = 0
    /\ constructed = FALSE
    /\ gen = 0
    /\ _channel = "none"
    /\ _manager = ResourceManager(0)
    /\ _lock = FALSE
    /\ _resource_names = <<>>
    /\ _should_close_channel = FALSE
    /\ call = NoCall
    /\ ret = NoRet
    /\ aliased = FALSE
    /\ rpcs = NoRpcs

\* One RobotClient in the event loop.
Init == ClientInit /\ other_pc = "none"

\* A second RobotClient with a positive refresh interval lives in the same loop.
InitTwoClients == ClientInit /\ other_pc = "sleep"

\* ---------------------------------------------------------- RPC history
Without(s, t) ==
    LET F[i \in 0..Len(s)] ==
            IF i = 0 THEN <<>>
            ELSE IF s[i] = t THEN F[i - 1] ELSE Append(F[i - 1], s[i])
    IN F[Len(s)]

\* The tasks whose pending RPC was issued before that of t.
Before(order, t) ==
    {order[j] : j \in {i \in DOMAIN order : \E k \in DOMAIN order : order[k] = t /\ i < k}}

\* refresh, line 116: task t issues its discovery RPC.
Issued(h, t) == [h EXCEPT !.order = Append(@, t), !.bg_failed = @ /\ t # "bg"]

\* refresh, line 116: the RPC of task t is answered with `response`.
Answered(h, t, response) ==
    [order |-> h.order, overtaken |-> h.overtaken \cup Before(h.order, t),
     last |-> response, bg_failed |-> h.bg_failed /\ t # "bg"]

\* refresh, line 116, or the loop of lines 121-130: the refresh() of task t raises.
Raised(h, t) == [h EXCEPT !.bg_failed = @ \/ t = "bg"]

\* The refresh() of task t is over.
Finished(h, t) == [h EXCEPT !.order = Without(@, t), !.overtaken = @ \ {t}]

\* ----------------------------------------------------------- construction
\* with_channel, lines 89-96: the fields are set and the first refresh() is called.
WithChannelInit ==
    /\ _manager' = ResourceManager(0)
    /\ _lock' = FALSE
    /\ _resource_names' = <<>>
    /\ _should_close_channel' = FALSE
    /\ rpcs' = Issued(NoRpcs, "main")
    /\ pc' = [pc EXCEPT !["main"] = "refresh_rpc"]

\* at_address: dial_direct is awaited.
AtAddress(interval) ==
    /\ pc["main"] = "start"
    /\ CanRun("main")
    /\ path' = "at_address"
    /\ refresh_interval' = interval
    /\ pc' = [pc EXCEPT !["main"] = "dialing"]
    /\ UNCHANGED <<other_pc, rpcs, frame, must_cancel, registry, constructed, gen, _channel,
                   clientVars, callVars>>

\* dial_direct returns the channel; with_channel runs up to its await.
Dialed ==
    /\ pc["main"] = "dialing"
    /\ CanRun("main")
    /\ _channel' = "open"
    /\ WithChannelInit
    /\ UNCHANGED <<other_pc, frame, must_cancel, optVars, constructed, gen, callVars>>

\* with_channel called by the user on a channel they own.
WithChannel(interval) ==
    /\ pc["main"] = "start"
    /\ CanRun("main")
    /\ path' = "with_channel"
    /\ refresh_interval' = interval
    /\ _channel' = "open"
    /\ WithChannelInit
    /\ UNCHANGED <<other_pc, frame, must_cancel, registry, constructed, gen, callVars>>

\* ---------------------------------------------------------------- refresh
\* Mutant of SameNames: the lists are compared by identity (`is`), never equal.
SameNames_ByIdentity(resource_names, cached) == FALSE

\* refresh, line 118: the discovered list equals the cached one (list ==, in order).
SameNames(resource_names, cached) == resource_names = cached

\* refresh, lines 122-125: entries the loop passes over before any lookup.
Skipped(rname) == rname.type # "component" \/ rname.subtype = "remote"

\* Registry.lookup(subtype): a factory is found (else ComponentNotFoundError).
Lookup(reg, subtype) == subtype \in reg

\* create_rpc_client(name, channel): a new proxy object, made during build `id`.
create_rpc_client(subtype, name, id) == [subtype |-> subtype, name |-> name, id |-> id]

\* ResourceManager.register: the mapping from name to proxy gains the proxy.
register(components, proxy) ==
    [n \in (DOMAIN components) \cup {proxy.name} |->
        IF n = proxy.name THEN proxy ELSE components[n]]

\* refresh, lines 121-130: the loop over the discovered names, from index i on.
RECURSIVE RegisterAll(_, _, _, _)
RegisterAll(resource_names, i, manager, reg) ==
    IF i > Len(resource_names) THEN manager
    ELSE LET rname == resource_names[i] IN
         IF Skipped(rname) THEN RegisterAll(resource_names, i + 1, manager, reg)
         ELSE IF Lookup(reg, rname.subtype)
              THEN RegisterAll(resource_names, i + 1,
                       [manager EXCEPT !.components =
                           register(@, create_rpc_client(rname.subtype, rname.name, manager.id))],
                       reg)
              ELSE RegisterAll(resource_names, i + 1, manager, reg)  \* warning logged

\* Mutant of BuildManager: the proxies are registered into the installed manager
\* (`manager = self._manager`) instead of a new ResourceManager().
BuildManager_InPlace(resource_names, reg, id) ==
    RegisterAll(resource_names, 1, _manager, reg)

\* refresh, lines 120-130: a new manager object holding the proxies of the response.
BuildManager(resource_names, reg, id) ==
    RegisterAll(resource_names, 1, ResourceManager(id), reg)

\* Mutant of ShouldSwap: the comparison is inverted (== for !=).
ShouldSwap_Inverted(new, installed) == new.components = installed.components

\* refresh, line 133: the new manager replaces the installed one.
ShouldSwap(new, installed) == new.components # installed.components

\* Mutant of Caught: the call of refresh() is not inside a try.
Caught_Nothing(exc) == FALSE

\* _refresh_every, line 141: `except Exception` catches the error.
Caught(exc) == exc # "CancelledError"

\* Mutant of WithChannelReturn: the task is created whatever the interval.
WithChannelReturn_AlwaysStarts ==
    /\ constructed' = TRUE
    /\ _should_close_channel' = (path = "at_address")
    /\ pc' = [pc EXCEPT !["main"] = "ready", !["bg"] = "sleep"]
    /\ UNCHANGED <<call, ret>>

\* with_channel, lines 98-102, and at_address, lines 73-74: the first refresh
\* returned; the task is created if the interval is positive and the client returned.
WithChannelReturn ==
    /\ constructed' = TRUE
    /\ _should_close_channel' = (path = "at_address")
    /\ pc' = [pc EXCEPT !["main"] = "ready",
                        !["bg"] = IF refresh_interval > 0 THEN "sleep" ELSE "none"]
    /\ UNCHANGED <<call, ret>>

\* with_channel, line 96: the first refresh raised; the error reaches the caller
\* of the constructor and no client is returned.
ConstructFail ==
    /\ pc' = [pc EXCEPT !["main"] = "failed"]
    /\ UNCHANGED <<constructed, _should_close_channel, call, ret>>

\* A manual refresh() returns, or raises, to its caller.
ManualRefreshReturn(raised, did) ==
    /\ call' = [call EXCEPT !.did = did]
    /\ ret' = IF raised
              THEN [NoRet EXCEPT !.kind = "error",
                                 !.err = IF did = "raised" THEN "RpcError" ELSE "BuildError"]
              ELSE NoRet
    /\ pc' = [pc EXCEPT !["main"] = "returned"]
    /\ UNCHANGED <<constructed, _should_close_channel>>

\* _refresh_every, lines 137-142: refresh() returned, or raised and was logged;
\* the loop sleeps again.
BgLoop(raised) ==
    /\ pc' = [pc EXCEPT !["bg"] = IF raised /\ ~Caught("Exception") THEN "done" ELSE "sleep"]
    /\ UNCHANGED <<constructed, _should_close_channel, call, ret>>

\* Where refresh() hands control back to: the caller of task t continues.
AfterRefresh(t, raised, did) ==
    IF t = "bg" THEN BgLoop(raised)
    ELSE IF constructed THEN ManualRefreshReturn(raised, did)
    ELSE IF raised THEN ConstructFail
    ELSE WithChannelReturn

\* Mutant of Discarded: the answer of an RPC issued before one already answered
\* is dropped.
Discarded_IfOvertaken(t, h) == t \in h.overtaken

\* refresh, lines 116-119: apart from equality with the cached list nothing makes
\* refresh() drop an answer; the order in which the RPCs were issued is not kept.
Discarded(t, h) == FALSE

\* Mutant of LockTaken: lines 132-134 run without the lock.
LockTaken_Not == FALSE

\* refresh, line 131: `with self._lock` holds the lock over lines 132-134.
LockTaken == TRUE

\* refresh, lines 116-132: the discovery RPC is answered.  An unchanged list returns
\* at once; otherwise the new manager is built, the lock is taken and the cache
\* becomes the new list object.
RefreshResponse(t, response) ==
    /\ pc[t] = "refresh_rpc"
    /\ t \notin must_cancel
    /\ CanRun(t)
    /\ IF SameNames(response, _resource_names) \/ Discarded(t, rpcs)
       THEN /\ AfterRefresh(t, FALSE, "unchanged")
            /\ rpcs' = Finished(Answered(rpcs, t, response), t)
            /\ UNCHANGED <<frame, gen, _lock, _resource_names, aliased>>
       ELSE /\ gen < MaxBuilds
            /\ gen' = gen + 1
            /\ frame' = [frame EXCEPT ![t] =
                            [manager |-> BuildManager(response, registry, gen + 1)]]
            /\ ~_lock
            /\ _lock' = LockTaken
            /\ _resource_names' = response
            /\ aliased' = FALSE
            /\ rpcs' = Answered(rpcs, t, response)
            /\ pc' = [pc EXCEPT ![t] = "refresh_swap"]
            /\ UNCHANGED <<constructed, _should_close_channel, call, ret>>
    /\ UNCHANGED <<other_pc, must_cancel, optVars, _channel, _manager>>

\* refresh, line 116: the discovery RPC fails; the error leaves refresh().
RefreshFail(t) ==
    /\ pc[t] = "refresh_rpc"
    /\ t \notin must_cancel
    /\ CanRun(t)
    /\ AfterRefresh(t, TRUE, "raised")
    /\ rpcs' = Raised(Finished(rpcs, t), t)
    /\ UNCHANGED <<other_pc, frame, must_cancel, optVars, gen, _channel,
                   _manager, _lock, _resource_names, aliased>>

\* refresh, lines 118-128: some answer differs from the cached list and has an
\* entry for which a factory is called, so that building its manager may raise.
BuildMayRaise(cached, reg) ==
    \E r \in Responses :
        /\ ~SameNames(r, cached)
        /\ \E i \in DOMAIN r : ~Skipped(r[i]) /\ Lookup(reg, r[i].subtype)

\* Mutant of RefreshBuildFail: the lock is taken and the list assigned before the
\* manager is built, so the error leaves refresh() with both done.
RefreshBuildFail_AfterAssign(t) ==
    /\ pc[t] = "refresh_rpc"
    /\ t \notin must_cancel
    /\ CanRun(t)
    /\ \E r \in Responses :
          /\ ~SameNames(r, _resource_names)
          /\ \E i \in DOMAIN r : ~Skipped(r[i]) /\ Lookup(registry, r[i].subtype)
          /\ _resource_names' = r
    /\ _lock' = TRUE
    /\ AfterRefresh(t, TRUE, "raised_in_build")
    /\ rpcs' = Raised(Finished(rpcs, t), t)
    /\ UNCHANGED <<other_pc, frame, must_cancel, optVars, gen, _channel,
                   _manager, aliased>>

\* refresh, lines 120-130: the list differs from the cached one and building the
\* new manager raises something other than ComponentNotFoundError (a factory's
\* create_rpc_client or register fails); the error leaves refresh() before line 131.
RefreshBuildFail(t) ==
    /\ pc[t] = "refresh_rpc"
    /\ t \notin must_cancel
    /\ CanRun(t)
    /\ BuildMayRaise(_resource_names, registry) = TRUE
    /\ AfterRefresh(t, TRUE, "raised_in_build")
    /\ rpcs' = Raised(Finished(rpcs, t), t)
    /\ UNCHANGED <<other_pc, frame, must_cancel, optVars, gen, _channel,
                   _manager, _lock, _resource_names, aliased>>

\* refresh, lines 133-134: the manager is swapped if its components differ; the
\* lock is left and refresh() returns.
RefreshSwap(t) ==
    /\ pc[t] = "refresh_swap"
    /\ CanRun(t)
    /\ _manager' = IF ShouldSwap(frame[t].manager, _manager)
                   THEN frame[t].manager ELSE _manager
    /\ _lock' = FALSE
    /\ frame' = [frame EXCEPT ![t] = NoFrame]
    /\ rpcs' = Finished(rpcs, t)
    /\ AfterRefresh(t, FALSE, IF ShouldSwap(frame[t].manager, _manager)
                               THEN "swapped" ELSE "kept")
    /\ UNCHANGED <<other_pc, must_cancel, optVars, gen, _channel, _resource_names, aliased>>

\* A manual refresh() is called: the discovery RPC is issued and awaited.
ManualRefresh ==
    /\ pc["main"] = "ready"
    /\ CanRun("main")
    /\ call' = [NoCall EXCEPT !.op = "refresh"]
    /\ rpcs' = Issued(rpcs, "main")
    /\ pc' = [pc EXCEPT !["main"] = "refresh_rpc"]
    /\ UNCHANGED <<other_pc, frame, must_cancel, optVars, constructed, gen, _channel,
                   clientVars, ret, aliased>>

\* ------------------------------------------------------- background task
\* _refresh_every, lines 138-140: the sleep ends and refresh() is called.
BgWake ==
    /\ pc["bg"] = "sleep"
    /\ "bg" \notin must_cancel
    /\ CanRun("bg")
    /\ rpcs' = Issued(rpcs, "bg")
    /\ pc' = [pc EXCEPT !["bg"] = "refresh_rpc"]
    /\ UNCHANGED <<other_pc, frame, must_cancel, optVars, constructed, gen, _channel,
                   clientVars, callVars>>

\* _refresh_every: CancelledError is thrown into the task at its await.
BgCancelled ==
    /\ pc["bg"] \in {"sleep", "refresh_rpc"}
    /\ "bg" \in must_cancel
    /\ CanRun("bg")
    /\ must_cancel' = must_cancel \ {"bg"}
    /\ rpcs' = [Finished(rpcs, "bg") EXCEPT !.bg_failed = FALSE]
    /\ pc' = [pc EXCEPT !["bg"] =
                 IF pc["bg"] = "sleep" THEN "cancelled_at_sleep"
                 ELSE IF Caught("CancelledError") THEN "sleep"
                 ELSE "cancelled_at_rpc"]
    /\ UNCHANGED <<other_pc, frame, optVars, constructed, gen, _channel, clientVars, callVars>>

\* ------------------------------------- the other client's refresh task
\* No task of this client is in the middle of a synchronous section.
LoopIdle == \A u \in Tasks : pc[u] \in SuspendPcs

\* _refresh_every of the other client, lines 138-140: its sleep ends.
OtherWake ==
    /\ other_pc = "sleep"
    /\ "other" \notin must_cancel
    /\ LoopIdle
    /\ other_pc' = "refresh_rpc"
    /\ UNCHANGED <<pc, frame, must_cancel, optVars, constructed, gen, _channel,
                   clientVars, callVars, rpcs>>

\* _refresh_every of the other client, lines 140-142: its refresh() returned, or
\* raised and was logged; it sleeps again.  The state it touches is its own client's.
OtherLoop ==
    /\ other_pc = "refresh_rpc"
    /\ "other" \notin must_cancel
    /\ LoopIdle
    /\ other_pc' = "sleep"
    /\ UNCHANGED <<pc, frame, must_cancel, optVars, constructed, gen, _channel,
                   clientVars, callVars, rpcs>>

\* _refresh_every of the other client: CancelledError is thrown in at its await.
OtherCancelled ==
    /\ other_pc \in {"sleep", "refresh_rpc"}
    /\ "other" \in must_cancel
    /\ LoopIdle
    /\ must_cancel' = must_cancel \ {"other"}
    /\ other_pc' = IF other_pc = "sleep" THEN "cancelled_at_sleep" ELSE "cancelled_at_rpc"
    /\ UNCHANGED <<pc, frame, optVars, constructed, gen, _channel,
                   clientVars, callVars, rpcs>>

\* -------------------------------------------------------------- accessors
\* Mutant of IsComponent: the type check is missing.
IsComponent_Unchecked(name) == TRUE

\* get_component, line 194: the name describes a component.
IsComponent(name) == name.type = "component"

\* Mutant of HeldAfterWith: acquire/release without try/finally, so a raising body
\* leaves the lock held.
HeldAfterWith_LeakOnRaise(raised) == raised

\* `with self._lock:` exit: the lock is held afterwards (raised: the body raised).
HeldAfterWith(raised) == FALSE

\* ResourceManager.get_component(ComponentBase, name): the proxy registered under
\* the name, or ComponentNotFoundError.
manager_get_component(manager, name) ==
    IF name \in DOMAIN manager.components
    THEN [NoRet EXCEPT !.kind = "proxy", !.proxy = manager.components[name]]
    ELSE [NoRet EXCEPT !.kind = "error", !.err = "ComponentNotFoundError"]

\* get_component, lines 194-196: the type check, then the lock is taken.
GetComponent(name) ==
    /\ pc["main"] = "ready"
    /\ CanRun("main")
    /\ call' = [NoCall EXCEPT !.op = "get_component", !.name = name]
    /\ IF ~IsComponent(name)
       THEN /\ ret' = [NoRet EXCEPT !.kind = "error", !.err = "ViamError"]
            /\ pc' = [pc EXCEPT !["main"] = "returned"]
            /\ UNCHANGED _lock
       ELSE /\ ~_lock
            /\ _lock' = TRUE
            /\ pc' = [pc EXCEPT !["main"] = "get_component_locked"]
            /\ UNCHANGED ret
    /\ UNCHANGED <<other_pc, rpcs, frame, must_cancel, optVars, constructed, gen, _channel,
                   _manager, _resource_names, _should_close_channel, aliased>>

\* get_component, lines 196-197: the lookup under the lock; the lock is left.
GetComponentLocked ==
    /\ pc["main"] = "get_component_locked"
    /\ CanRun("main")
    /\ ret' = manager_get_component(_manager, call.name.name)
    /\ _lock' = HeldAfterWith(ret'.kind = "error")
    /\ pc' = [pc EXCEPT !["main"] = "returned"]
    /\ UNCHANGED <<other_pc, rpcs, frame, must_cancel, optVars, constructed, gen, _channel,
                   _manager, _resource_names, _should_close_channel, call, aliased>>

\* Mutant of HasService: the `rn.type == 'service'` filter is missing.
HasService_AnyType(service_type, names) ==
    service_type \in {names[i].subtype : i \in DOMAIN names}

\* get_service, line 212: a cached service-type entry has the subtype asked for.
HasService(service_type, names) ==
    service_type \in {names[i].subtype : i \in {j \in DOMAIN names : names[j].type = "service"}}

\* get_service, line 211: the lock is taken.
GetService(service_type) ==
    /\ pc["main"] = "ready"
    /\ CanRun("main")
    /\ ~_lock
    /\ _lock' = TRUE
    /\ call' = [NoCall EXCEPT !.op = "get_service", !.service_type = service_type]
    /\ pc' = [pc EXCEPT !["main"] = "get_service_locked"]
    /\ UNCHANGED <<other_pc, rpcs, frame, must_cancel, optVars, constructed, gen, _channel,
                   _manager, _resource_names, _should_close_channel, ret, aliased>>

\* get_service, lines 212-214: a service client on the channel, or not-implemented.
GetServiceLocked ==
    /\ pc["main"] = "get_service_locked"
    /\ CanRun("main")
    /\ ret' = IF HasService(call.service_type, _resource_names)
              THEN [NoRet EXCEPT !.kind = "service"]
              ELSE [NoRet EXCEPT !.kind = "error", !.err = "ServiceNotImplementedError"]
    /\ _lock' = HeldAfterWith(ret'.kind = "error")
    /\ pc' = [pc EXCEPT !["main"] = "returned"]
    /\ UNCHANGED <<other_pc, rpcs, frame, must_cancel, optVars, constructed, gen, _channel,
                   _manager, _resource_names, _should_close_channel, call, aliased>>

\* Mutant of CopyOfNames: `return self._resource_names`, the cached object itself.
CopyOfNames_SameObject(names) == [list |-> names, same_object |-> TRUE]

\* resource_names, line 225: the list handed to the caller, and whether it is the
\* cached list object itself.
CopyOfNames(names) ==
    [list |-> [i \in DOMAIN names |-> names[i]], same_object |-> FALSE]

\* resource_names, line 224: the lock is taken.
ResourceNames ==
    /\ pc["main"] = "ready"
    /\ CanRun("main")
    /\ ~_lock
    /\ _lock' = TRUE
    /\ call' = [NoCall EXCEPT !.op = "resource_names"]
    /\ pc' = [pc EXCEPT !["main"] = "resource_names_locked"]
    /\ UNCHANGED <<other_pc, rpcs, frame, must_cancel, optVars, constructed, gen, _channel,
                   _manager, _resource_names, _should_close_channel, ret, aliased>>

\* resource_names, lines 224-225: the list is built and returned; the lock is left.
ResourceNamesLocked ==
    /\ pc["main"] = "resource_names_locked"
    /\ CanRun("main")
    /\ LET r == CopyOfNames(_resource_names) IN
          /\ ret' = [NoRet EXCEPT !.kind = "list", !.list = r.list]
          /\ aliased' = r.same_object
    /\ _lock' = HeldAfterWith(FALSE)
    /\ pc' = [pc EXCEPT !["main"] = "holding_list"]
    /\ UNCHANGED <<other_pc, rpcs, frame, must_cancel, optVars, constructed, gen, _channel,
                   _manager, _resource_names, _should_close_channel, call>>

Reverse(s) == [i \in DOMAIN s |-> s[Len(s) + 1 - i]]

\* What a caller may do to the list it was given: append, remove, reorder.
Mutations(s) ==
    {Reverse(s)}
    \cup (IF Len(s) > 0 THEN {SubSeq(s, 1, Len(s) - 1)} ELSE {})
    \cup (IF Len(s) < MaxLen THEN {Append(s, e) : e \in Universe} ELSE {})

\* The caller mutates the list object it got from resource_names.
MutateReturned(m) ==
    /\ pc["main"] = "holding_list"
    /\ CanRun("main")
    /\ m \in Mutations(ret.list)
    /\ m # ret.list
    /\ ret' = [ret EXCEPT !.list = m]
    /\ _resource_names' = IF aliased THEN m ELSE _resource_names
    /\ pc' = [pc EXCEPT !["main"] = "returned"]
    /\ UNCHANGED <<other_pc, rpcs, frame, must_cancel, optVars, constructed, gen, _channel,
                   _manager, _lock, _should_close_channel, call, aliased>>

\* The caller is done with the result of its last call.
Continue ==
    /\ pc["main"] \in {"returned", "holding_list"}
    /\ CanRun("main")
    /\ call' = NoCall
    /\ ret' = NoRet
    /\ aliased' = FALSE
    /\ pc' = [pc EXCEPT !["main"] = "ready"]
    /\ UNCHANGED <<other_pc, rpcs, frame, must_cancel, optVars, constructed, gen, _channel, clientVars>>

\* ------------------------------------------------------------------ close
\* close, line 239: the live tasks of the loop whose name has the Viam prefix.
ViamTasks(pcs) == {t \in DOMAIN pcs : pcs[t] \notin DonePcs}

\* asyncio.all_tasks(), line 239, less the caller: the refresh task of this client
\* and the refresh task of the other client of the loop.
LoopTasks == [t \in {"bg", "other"} |-> IF t = "bg" THEN pc["bg"] ELSE other_pc]

\* Mutant of Gathered: the cancelled tasks are not awaited.
Gathered_NoWait(pcs) == TRUE

\* close, line 243: gather has results for all the tasks it was given.
Gathered(pcs) == \A t \in DOMAIN pcs : pcs[t] \in DonePcs

\* close, lines 231-243 (op "close"), also reached from __aexit__, line 253: the
\* lock is released if held, the tasks are cancelled, gather is awaited.
Close(op) ==
    /\ pc["main"] = "ready"
    /\ CanRun("main")
    /\ _lock' = FALSE
    /\ must_cancel' = must_cancel \cup ViamTasks(LoopTasks)
    /\ call' = [NoCall EXCEPT !.op = op]
    /\ ret' = NoRet
    /\ aliased' = FALSE
    /\ pc' = [pc EXCEPT !["main"] = "closing"]
    /\ UNCHANGED <<other_pc, rpcs, frame, optVars, constructed, gen, _channel,
                   _manager, _resource_names, _should_close_channel>>

\* close, line 243: gather(..., return_exceptions=True) hands the CancelledError of
\* the cancelled tasks back as results; it does not raise them.
GatherRaises(cancelled) == FALSE

\* The tasks that ended by cancellation.
CancelledTasks(pcs) ==
    {t \in DOMAIN pcs : pcs[t] \in {"cancelled_at_sleep", "cancelled_at_rpc"}}

\* Mutant of CloseFinish: the channel is closed whoever owns it.
CloseFinish_AlwaysClose ==
    /\ pc["main"] = "closing"
    /\ CanRun("main")
    /\ Gathered(LoopTasks)
    /\ _channel' = "closed"
    /\ pc' = [pc EXCEPT !["main"] = "closed"]
    /\ UNCHANGED <<other_pc, rpcs, frame, must_cancel, optVars, constructed, gen, clientVars, callVars>>

\* close, lines 243-247: gather returns; the channel is closed if it is owned.
CloseFinish ==
    /\ pc["main"] = "closing"
    /\ CanRun("main")
    /\ Gathered(LoopTasks)
    /\ LET raised == GatherRaises(CancelledTasks(LoopTasks)) IN
          /\ ret' = IF raised
                    THEN [NoRet EXCEPT !.kind = "error", !.err = "CancelledError"]
                    ELSE NoRet
          /\ _channel' = IF ~raised /\ _should_close_channel THEN "closed" ELSE _channel
    /\ pc' = [pc EXCEPT !["main"] = "closed"]
    /\ UNCHANGED <<other_pc, rpcs, frame, must_cancel, optVars, constructed, gen, clientVars,
                   call, aliased>>

\* ---------------------------------------------------------- specification
Next ==
    \/ \E i \in Intervals : AtAddress(i)
    \/ Dialed
    \/ \E i \in Intervals : WithChannel(i)
    \/ ManualRefresh
    \/ \E t \in {u \in Tasks : pc[u] = "refresh_rpc"}, r \in Responses :
          RefreshResponse(t, r)
    \/ \E t \in Tasks : RefreshFail(t)
    \/ \E t \in Tasks : RefreshBuildFail(t)
    \/ \E t \in Tasks : RefreshSwap(t)
    \/ BgWake
    \/ BgCancelled
    \/ \E n \in Universe : GetComponent(n)
    \/ GetComponentLocked
    \/ \E s \in ServiceTypes : GetService(s)
    \/ GetServiceLocked
    \/ ResourceNames
    \/ ResourceNamesLocked
    \/ \E m \in Mutations(ret.list) : MutateReturned(m)
    \/ Continue
    \/ \E op \in {"close", "__aexit__"} : Close(op)
    \/ CloseFinish

Spec == Init /\ [][Next]_vars

\* The caller's task, once running, runs on to its next await.
MainRuns ==
    \/ RefreshSwap("main")
    \/ GetComponentLocked
    \/ GetServiceLocked
    \/ ResourceNamesLocked
    \/ Continue

\* The event loop runs a task whose sleep has ended, or that has a cancellation
\* pending, as soon as the running task reaches an await: the wake-up of the
\* refresh task cannot be passed over forever.
FairSpec == Spec /\ WF_vars(MainRuns) /\ SF_vars(BgWake) /\ SF_vars(BgCancelled)

\* Two clients in one event loop.
NextTwoClients == Next \/ OtherWake \/ OtherLoop \/ OtherCancelled

SpecTwoClients == InitTwoClients /\ [][NextTwoClients]_vars

\* ----------------------------------------------------------------- claims
ManualRefreshed(did) ==
    pc["main"] = "returned" /\ call.op = "refresh" /\ call.did = did

Returned(op) == pc["main"] = "returned" /\ call.op = op

NotFound(r) == r.kind = "error" /\ r.err = "ComponentNotFoundError"

Entries(names) == {names[i] : i \in DOMAIN names}

\* A component entry that refresh() looks up and finds no factory for.
NoFactory(rn) ==
    rn.type = "component" /\ rn.subtype # "remote" /\ ~Lookup(registry, rn.subtype)

\* A component entry that refresh() looks up and finds a factory for.
HasFactory(rn) ==
    rn.type = "component" /\ rn.subtype # "remote" /\ Lookup(registry, rn.subtype)

\* The component set a response describes.
Discovered(names) == {rn.name : rn \in {e \in Entries(names) : e.type = "component"}}

\* The component set of a manager.
Installed(manager) == DOMAIN manager.components

\* C1: a refresh() (manual or periodic) whose discovery response equals the cached
\* name list, element by element and in order, leaves the installed manager object
\* and the cached list as they were: no manager is built, none is swapped, the lock
\* is not taken.
C1_UnchangedListKeepsState ==
    [][\A t \in Tasks :
          RefreshResponse(t, _resource_names)
              => /\ _manager' = _manager
                 /\ _resource_names' = _resource_names
                 /\ gen' = gen
                 /\ _lock' = _lock]_vars

\* C1 witness: a manual refresh returned through the unchanged-list path with a
\* non-empty cache and a non-empty manager installed.
C1_Witness ==
    /\ ManualRefreshed("unchanged")
    /\ Len(_resource_names) = MaxLen
    /\ Installed(_manager) # {}

C3_Original ==
    /\ \A t \in Tasks : \A n \in Installed(frame[t].manager) :
           frame[t].manager.components[n].subtype # "remote"
    /\ \A n \in Installed(_manager) : _manager.components[n].subtype # "remote"
    /\ (Returned("get_component") /\ call.name \in Entries(_resource_names)
            /\ call.name.type = "component" /\ call.name.subtype = "remote")
           => NotFound(ret)

\* C4 as stated: a response holding a component without a factory does not make
\* refresh() raise; the components of that response that have a factory are
\* registered, the cache is the full response, and a later get_component for the
\* skipped name fails with not-found.
C4_Original ==
    /\ (\E rn \in Entries(_resource_names) : NoFactory(rn))
           /\ (ManualRefreshed("swapped") \/ ManualRefreshed("kept"))
           => /\ ret.kind # "error"
              /\ \A rn \in Entries(_resource_names) :
                     HasFactory(rn) => rn.name \in Installed(_manager)
    /\ (Returned("get_component") /\ call.name \in Entries(_resource_names)
            /\ NoFactory(call.name))
           => NotFound(ret)

\* C5: get_component(name) with name.type other than "component" fails with
\* ViamError in every state, also when a component of the same name string is
\* installed, and leaves the manager, the cached names and the lock as they were.
C5_NonComponentIsInvalidArgument ==
    [][(GetComponent(call'.name) /\ call'.name.type # "component")
              => /\ pc'["main"] = "returned"
                 /\ ret'.kind = "error" /\ ret'.err = "ViamError"
                 /\ _manager' = _manager
                 /\ _resource_names' = _resource_names
                 /\ _lock' = _lock]_vars

\* C5 witness: get_component of a service name returned ViamError while a
\* component with the same name string is installed.
C5_Witness ==
    /\ Returned("get_component")
    /\ call.name = VisionX
    /\ ret.kind = "error" /\ ret.err = "ViamError"
    /\ VisionX.name \in Installed(_manager)
    /\ ~_lock

C7_ServiceIffCachedServiceEntry ==
    Returned("get_service")
        => /\ ~_lock
           /\ IF \E rn \in Entries(_resource_names) :
                    rn.type = "service" /\ rn.subtype = call.service_type
              THEN ret.kind = "service"
              ELSE ret.kind = "error" /\ ret.err = "ServiceNotImplementedError"

\* C7 witness: get_service("arm") failed while a component of subtype "arm" and a
\* service entry of another subtype are cached.
C7_Witness ==
    /\ Returned("get_service")
    /\ call.service_type = "arm"
    /\ _resource_names = <<ArmX, VisionX>>
    /\ ret.kind = "error" /\ ret.err = "ServiceNotImplementedError"

\* C8: resource_names returns a copy: mutating the returned list (append, remove,
\* reorder) leaves the cached list as it was, and with it what later resource_names
\* and get_service calls and the unchanged-list test of the next refresh() read.
C8_ReturnedListIsACopy ==
    [][MutateReturned(ret'.list)
          => (_resource_names' = _resource_names /\ ~aliased)]_vars

\* C8 witness: the caller holds a mutated list that differs from the non-empty cache.
C8_Witness ==
    /\ Returned("resource_names")
    /\ ret.kind = "list"
    /\ _resource_names # <<>>
    /\ ret.list # _resource_names

\* C9: once close() has returned, the channel is closed if the client was built by
\* at_address and still open if it was built by with_channel, whether close() was
\* called directly or by leaving an `async with` block.
C9_ChannelClosedIffDialed ==
    pc["main"] = "closed"
        => (IF path = "at_address" THEN _channel = "closed" ELSE _channel = "open")

\* C9 witness: a with_channel client used as a context manager was closed and its
\* channel is open.
C9_Witness ==
    /\ pc["main"] = "closed"
    /\ path = "with_channel"
    /\ call.op = "__aexit__"
    /\ _channel = "open"

\* C10: close() returns only when the background task has ended: no cancellation
\* is left pending, and from then on the task issues no discovery RPC and updates
\* neither the name list nor the manager, whether it was cancelled in its sleep or
\* while awaiting a discovery RPC; the cancellation does not reach close()'s caller.
C10_NoRefreshOutlivesClose ==
    /\ [](pc["main"] = "closed"
              => (pc["bg"] \in DonePcs /\ must_cancel = {} /\ ret.kind # "error"))
    /\ [][pc["main"] = "closed"
             => (pc' = pc /\ _resource_names' = _resource_names
                 /\ _manager' = _manager)]_vars

\* C10 witness: close() returned after the task was cancelled while awaiting a
\* discovery RPC.
C10_Witness ==
    /\ pc["main"] = "closed"
    /\ pc["bg"] = "cancelled_at_rpc"
    /\ refresh_interval > 0

\* C11: a periodic refresh that fails (the RPC, or the building of the manager)
\* never ends the background task: the task is never finished other than by
\* cancellation, the failing step takes it back to its sleep with the cache and the
\* manager untouched, from that sleep it calls refresh() again unless it is
\* cancelled, and an answer it then gets becomes the cached list.
C11_FailureKeepsLoopAlive ==
    /\ [](pc["bg"] # "done")
    /\ [][(RefreshFail("bg") \/ RefreshBuildFail("bg"))
             => /\ pc'["bg"] = "sleep"
                /\ rpcs'.bg_failed
                /\ _resource_names' = _resource_names
                /\ _manager' = _manager]_vars
    /\ [][RefreshResponse("bg", rpcs'.last) => _resource_names' = rpcs'.last]_vars
    /\ (rpcs.bg_failed /\ pc["bg"] = "sleep")
           ~> (pc["bg"] = "refresh_rpc" \/ pc["bg"] = "cancelled_at_sleep")

\* The periodic refresh has failed and the task sleeps again; the client is in use.
C11_Witness ==
    /\ rpcs.bg_failed
    /\ pc["bg"] = "sleep"
    /\ "bg" \notin must_cancel
    /\ pc["main"] = "ready"
    /\ _resource_names = <<ArmX>>

\* C12: construction makes exactly one discovery refresh before it returns: its RPC
\* is issued when with_channel starts and no other is issued until the client is
\* returned, which happens on the step that completes that refresh.  No background
\* task exists before the client is returned; when the first discovery fails the
\* constructor raises, no client is returned and no task exists; the task exists
\* from the return on exactly when the interval is positive; with interval zero
\* every discovery RPC is the constructor's or a manual refresh()'s.
C12_OneRefreshThenTask ==
    /\ [](~constructed => pc["bg"] = "none")
    /\ [](pc["main"] = "failed" => (~constructed /\ pc["bg"] = "none"))
    /\ [](constructed => (pc["bg"] # "none" <=> refresh_interval > 0))
    /\ [][(~constructed /\ Len(rpcs'.order) > Len(rpcs.order))
             => (pc["main"] \in {"start", "dialing"} /\ rpcs'.order = <<"main">>)]_vars
    /\ [][(~constructed /\ constructed')
             => /\ pc["main"] \in {"refresh_rpc", "refresh_swap"}
                /\ rpcs.order = <<"main">>
                /\ pc'["main"] = "ready"]_vars
    /\ [][(refresh_interval' = 0 /\ Len(rpcs'.order) > Len(rpcs.order))
             => /\ rpcs'.order = <<"main">>
                /\ (~constructed \/ call'.op = "refresh")]_vars

\* The first discovery of a client dialed with a positive interval has failed.
C12_Witness ==
    /\ pc["main"] = "failed"
    /\ path = "at_address"
    /\ refresh_interval > 0
    /\ pc["bg"] = "none"
    /\ ~constructed

\* C13: whenever the manager lock is free, the component names of the installed
\* manager are exactly the names of the cached entries that have type "component",
\* a subtype other than "remote" and a registered factory: the list of one refresh
\* is never visible together with the component set of another.
C13_ListAndManagerAgreeWhenUnlocked ==
    ~_lock => Installed(_manager) =
                 {rn.name : rn \in {e \in Entries(_resource_names) : HasFactory(e)}}

\* A manual refresh has replaced the manager while a periodic refresh is in flight;
\* the lock is free.
C13_Witness ==
    /\ ~_lock
    /\ ManualRefreshed("swapped")
    /\ rpcs.order = <<"bg">>
    /\ _manager.id = 2
    /\ _resource_names = <<ArmY, VisionX>>
    /\ Installed(_manager) = {"y"}

\* C14: a manager object is never modified once installed: as long as the installed
\* manager is the same object its mapping from names to proxies is the same, and a
\* step that changes the mapping installs another object, which at that moment
\* holds every proxy of the list it was built from, all of them made by its build.
C14_InstalledManagerNeverModified ==
    /\ [][_manager'.id = _manager.id => _manager'.components = _manager.components]_vars
    /\ [][_manager' # _manager
             => /\ Installed(_manager') =
                      {rn.name : rn \in {e \in Entries(_resource_names') : HasFactory(e)}}
                /\ \A n \in Installed(_manager') :
                      _manager'.components[n].id = _manager'.id]_vars

\* A refresh has replaced the first manager by one that holds "x" and "y"; the
\* caller then gets a proxy of the new manager.
C14_Witness ==
    /\ Returned("get_component")
    /\ ret.kind = "proxy"
    /\ ret.proxy.id = 2
    /\ _manager.id = 2
    /\ Installed(_manager) = {"x", "y"}
    /\ pc["bg"] = "sleep"

\* Two managers describe the same component set: the same names, each of the
\* same subtype, whichever objects the proxies are.
SameComponentSet(a, b) ==
    /\ Installed(a) = Installed(b)
    /\ \A n \in Installed(a) : a.components[n].subtype = b.components[n].subtype

\* C15: when the discovered list differs from the cached one and the manager built
\* from it describes the same component set as the installed one, the refresh
\* records the new list and keeps the installed manager object and its proxies.
C15_Original ==
    [][\A t \in Tasks :
          (RefreshSwap(t) /\ SameComponentSet(frame[t].manager, _manager))
              => (_manager' = _manager /\ _resource_names' = rpcs.last)]_vars

\* C16: a refresh() that fails, by its discovery RPC or while the new manager is
\* built, leaves the cached list, the installed manager and the count of built
\* managers as they were and the lock free; a manual refresh() hands the error to
\* its caller, the constructor's refresh fails the construction.
C16_FailedRefreshChangesNothing ==
    [][\A t \in Tasks :
          (RefreshFail(t) \/ RefreshBuildFail(t))
              => /\ _resource_names' = _resource_names
                 /\ _manager' = _manager
                 /\ ~_lock /\ ~_lock'
                 /\ (t = "main" /\ constructed)
                       => (pc'["main"] = "returned" /\ ret'.kind = "error")
                 /\ (t = "main" /\ ~constructed) => pc'["main"] = "failed"]_vars

\* A manual refresh() has raised while building the manager of a changed list.
C16_Witness ==
    /\ ManualRefreshed("raised_in_build")
    /\ ret.kind = "error"
    /\ _resource_names = <<ArmX>>
    /\ Installed(_manager) = {"x"}
    /\ ~_lock

\* C17: close() of this client leaves the refresh task of the other client of the
\* loop alone: no cancellation is requested of it and it is not ended by one.
C17_Original ==
    /\ "other" \notin must_cancel
    /\ other_pc \notin {"cancelled_at_sleep", "cancelled_at_rpc"}

\* C18: a proxy returned by get_component(name) is the proxy of the discovered
\* resource with the subtype and the name asked for, never one of another subtype
\* registered under the same name string.
C18_Original ==
    (Returned("get_component") /\ ret.kind = "proxy")
        => (ret.proxy.subtype = call.name.subtype /\ ret.proxy.name = call.name.name)

\* C19: a channel dialed by at_address is closed once the client is done with: when
\* close() of the returned client has returned, and when the first discovery has
\* failed and the error has reached the caller of at_address.
C19_Original ==
    (path = "at_address" /\ pc["main"] \in {"closed", "failed"}) => _channel = "closed"

\* C20 as stated: the answer of an RPC that was issued before an RPC already
\* answered never replaces the cached list.
C20_Original ==
    [][\A t \in rpcs.overtaken :
          RefreshResponse(t, rpcs'.last) => _resource_names' = _resource_names]_vars

\* C20, amended: the cache and the manager reflect the answer handled last,
\* whichever RPC was issued last: the cached list is always the answer handled
\* last, also when its RPC was issued before an RPC answered earlier, and whenever
\* the lock is free the installed manager holds the components of that answer.
C20_LastHandledAnswerWins ==
    /\ _resource_names = rpcs.last
    /\ ~_lock => Installed(_manager) =
                    {rn.name : rn \in {e \in Entries(rpcs.last) : HasFactory(e)}}
    /\ \A t \in rpcs.overtaken : pc[t] \in {"refresh_rpc", "refresh_swap"}

\* The manual refresh was issued first and answered last: the periodic refresh
\* installed "x", the answer of the manual one is now the cached list.
C20_Witness ==
    /\ pc["main"] = "refresh_swap"
    /\ "main" \in rpcs.overtaken
    /\ call.op = "refresh"
    /\ pc["bg"] = "sleep"
    /\ Installed(_manager) = {"x"}
    /\ _resource_names = <<ArmY>>
    /\ rpcs.last = <<ArmY>>
====
